---- MODULE Spec2Model ----
(***************************************************************************)
(* Model of src/src/hamilton_cycle.py: the two Hamiltonian path / cycle    *)
(* solvers of HamiltonCycleColoring (hamilton_backtracking and             *)
(* hamilton_bruteforce).  Python lists are sequences; Python index k is    *)
(* TLA+ index k + 1.                                                       *)
(***************************************************************************)
EXTENDS Integers, Sequences, FiniteSets, TLC

\* ------------------------------------------------------------------ bounds
MaxVertices == 3
MaxEdges == 3
MaxGraphVertices == 4

\* ------------------------------------------------------- Python values
\* A Python value that is either None or a list.
None == [kind |-> "none", items |-> <<>>]
List(s) == [kind |-> "list", items |-> s]

\* Python's max on two integers.
max(a, b) == IF a >= b THEN a ELSE b

\* Python's "x in lst" on a list.
In(x, lst) == \E k \in 1..Len(lst) : lst[k] = x

\* arr[:i] + arr[i+1:] with i the TLA+ index of the removed element.
Without(arr, i) == SubSeq(arr, 1, i - 1) \o SubSeq(arr, i + 1, Len(arr))

\* ------------------------------------------------ hamilton_backtracking
\* "neighbor = None" of the edge loop; vertex identifiers are positive.
NoNeighbor == 0

\* check_for_cycle(cur_node, start_node): some entry of edges joins them.
check_for_cycle(es, cur_node, start_node) ==
    \E k \in 1..Len(es) :
        \/ cur_node = es[k][1] /\ start_node = es[k][2]
        \/ cur_node = es[k][2] /\ start_node = es[k][1]

\* The neighbour the edge loop derives from one edge (lines 102-106).
Neighbor(edge, cur_node, visited) ==
    IF edge[2] = cur_node /\ ~In(edge[1], visited) THEN edge[1]
    ELSE IF edge[1] = cur_node /\ ~In(edge[2], visited) THEN edge[2]
    ELSE NoNeighbor

\* The nonlocal accumulators before the first call of recurse.
BtInit == [Hamiltonian_Path |-> <<>>, Hamiltonian_Cycle |-> <<>>,
           Largest_Cycle_Size |-> 0]

\* Lines 88-90: the cycle-closure check on a partial path.
ClosureCheck(es, visited, cur_node, acc) ==
    IF Len(visited) >= 3 /\ check_for_cycle(es, cur_node, visited[1])
    THEN [acc EXCEPT !.Largest_Cycle_Size = max(@, Len(visited))]
    ELSE acc

\* Line 94 guarded by "if not Hamiltonian_Path": the first path is kept.
RecordPathOnce(acc, visited) ==
    IF acc.Hamiltonian_Path = <<>>
    THEN [acc EXCEPT !.Hamiltonian_Path = visited]
    ELSE acc

\* Line 94: the complete path is recorded.
RecordPath(acc, visited) == [acc EXCEPT !.Hamiltonian_Path = visited]

\* Lines 93-98: the base case on a complete visited sequence.
BaseCase(es, visited, cur_node, acc) ==
    LET a1 == RecordPath(acc, visited)
    IN  IF check_for_cycle(es, cur_node, visited[1])
        THEN [a1 EXCEPT !.Hamiltonian_Cycle = Append(visited, visited[1]),
                        !.Largest_Cycle_Size = Len(visited)]
        ELSE a1

RECURSIVE recurse(_, _, _, _, _)
RECURSIVE edge_loop(_, _, _, _, _, _)

\* recurse(visited, cur_node), threading the nonlocal accumulators.
recurse(nv, es, visited, cur_node, acc) ==
    LET a0 == ClosureCheck(es, visited, cur_node, acc)
    IN  IF nv = Len(visited)
        THEN BaseCase(es, visited, cur_node, a0)
        ELSE edge_loop(nv, es, visited, cur_node, 1, a0)

\* "for edge in edges" of recurse, from the i-th edge on (lines 101-113).
edge_loop(nv, es, visited, cur_node, i, acc) ==
    IF i > Len(es) THEN acc
    ELSE LET neighbor == Neighbor(es[i], cur_node, visited)
         IN  IF neighbor # NoNeighbor
             THEN LET a1 == recurse(nv, es, Append(visited, neighbor), neighbor, acc)
                  IN  IF a1.Hamiltonian_Cycle # <<>> THEN a1
                      ELSE edge_loop(nv, es, visited, cur_node, i + 1, a1)
             ELSE edge_loop(nv, es, visited, cur_node, i + 1, acc)

RECURSIVE start_loop(_, _, _, _)

\* "for start in vertices" (lines 126-129), from the s-th vertex on.
start_loop(vs, es, s, acc) ==
    IF s > Len(vs) THEN acc
    ELSE LET a1 == recurse(Len(vs), es, <<vs[s]>>, vs[s], acc)
         IN  IF a1.Hamiltonian_Cycle # <<>> THEN a1
             ELSE start_loop(vs, es, s + 1, a1)

\* Line 131: the returned list; the lists are returned as they are.
BtResult(acc) ==
    [path_found |-> acc.Hamiltonian_Path # <<>>,
     path |-> List(acc.Hamiltonian_Path),
     cycle_found |-> acc.Hamiltonian_Cycle # <<>>,
     cycle |-> List(acc.Hamiltonian_Cycle),
     largest_cycle_size |-> acc.Largest_Cycle_Size]

\* hamilton_backtracking(vertices, edges); vs is the set's iteration order.
hamilton_backtracking(vs, es) == BtResult(start_loop(vs, es, 1, BtInit))

\* -------------------------------------------------- hamilton_bruteforce
\* edge_set: both orientations of every entry of edges.
edge_set(es) ==
    {<<es[k][1], es[k][2]>> : k \in 1..Len(es)} \cup
    {<<es[k][2], es[k][1]>> : k \in 1..Len(es)}

\* has_edge(u, v) on the edge_set built before the search (lines 146-147).
has_edge(E, u, v) == <<u, v>> \in E

\* is_valid_path with "range(len(perm) - 2)": the last pair is not checked.
is_valid_path_short(E, perm) ==
    \A i \in 1..(Len(perm) - 2) : has_edge(E, perm[i], perm[i + 1])

\* is_valid_path(perm): consecutive vertices are joined (lines 149-154).
is_valid_path(E, perm) ==
    \A i \in 1..(Len(perm) - 1) : has_edge(E, perm[i], perm[i + 1])

RECURSIVE backtrack(_, _)
RECURSIVE backtrack_from(_, _, _)

\* backtrack(current, remaining): the permutations appended to result.
backtrack(current, remaining) ==
    IF remaining = <<>> THEN <<current>>
    ELSE backtrack_from(current, remaining, 1)

\* "for i in range(len(remaining))" of backtrack, from index i on.
backtrack_from(current, remaining, i) ==
    IF i > Len(remaining) THEN <<>>
    ELSE backtrack(Append(current, remaining[i]), Without(remaining, i))
         \o backtrack_from(current, remaining, i + 1)

generate_permutations(arr) == backtrack(<<>>, arr)

RECURSIVE backtrack_subset(_, _, _)
RECURSIVE backtrack_subset_from(_, _, _)

\* backtrack_subset(start, current): the subsets appended to result.
backtrack_subset(arr, start, current) ==
    (IF Len(current) >= 3 THEN <<current>> ELSE <<>>)
    \o backtrack_subset_from(arr, start, current)

\* "for i in range(start, len(arr))" of backtrack_subset.
backtrack_subset_from(arr, i, current) ==
    IF i > Len(arr) THEN <<>>
    ELSE backtrack_subset(arr, i + 1, Append(current, arr[i]))
         \o backtrack_subset_from(arr, i + 1, current)

generate_subsets(arr) == backtrack_subset(arr, 1, <<>>)

\* The accumulators before the permutation phase (lines 189-191).
BfInit == [hamiltonian_path |-> <<>>, hamiltonian_cycle |-> <<>>,
           largest_cycle_size |-> 0]

\* Lines 198-199 without the guard: every valid permutation is recorded.
KeepLastPath(acc, perm) == [acc EXCEPT !.hamiltonian_path = perm]

\* Lines 198-199: the first valid permutation is kept.
KeepFirstPath(acc, perm) ==
    IF acc.hamiltonian_path = <<>>
    THEN [acc EXCEPT !.hamiltonian_path = perm]
    ELSE acc

\* Lines 202-207 with line 206 testing "not hamiltonian_path".
CloseFullWrongGuard(E, n, perm, acc) ==
    IF Len(perm) >= 3 /\ has_edge(E, perm[Len(perm)], perm[1])
    THEN LET a1 == [acc EXCEPT !.largest_cycle_size = max(@, Len(perm))]
         IN  IF Len(perm) = n /\ a1.hamiltonian_path = <<>>
             THEN [a1 EXCEPT !.hamiltonian_cycle = Append(perm, perm[1])]
             ELSE a1
    ELSE acc

\* Lines 202-207: the closure check of a valid permutation.
CloseFull(E, n, perm, acc) ==
    IF Len(perm) >= 3 /\ has_edge(E, perm[Len(perm)], perm[1])
    THEN LET a1 == [acc EXCEPT !.largest_cycle_size = max(@, Len(perm))]
         IN  IF Len(perm) = n /\ a1.hamiltonian_cycle = <<>>
             THEN [a1 EXCEPT !.hamiltonian_cycle = Append(perm, perm[1])]
             ELSE a1
    ELSE acc

\* Lines 196-207: the body of the loop over all_perms.
FullStep(E, n, perm, acc) ==
    IF is_valid_path(E, perm)
    THEN CloseFull(E, n, perm, KeepFirstPath(acc, perm))
    ELSE acc

RECURSIVE full_loop(_, _, _, _, _, _)

\* "for perm in all_perms" (line 195) over perms[lo..hi], in list order.
\* The range is halved and the first half is evaluated before the second
\* is entered (its size is never negative), which keeps the evaluation
\* shallow.
full_loop(E, n, perms, lo, hi, acc) ==
    IF lo > hi THEN acc
    ELSE IF lo = hi THEN FullStep(E, n, perms[lo], acc)
    ELSE LET mid == (lo + hi) \div 2
             first == full_loop(E, n, perms, lo, mid, acc)
         IN  IF first.largest_cycle_size >= 0
             THEN full_loop(E, n, perms, mid + 1, hi, first)
             ELSE first

\* Lines 215-217: the body of the loop over the permutations of a subset.
\* perm[-1] of an empty perm does not occur: subsets have size >= 3.
SubsetStep(E, perm, acc) ==
    IF is_valid_path(E, perm) /\ has_edge(E, perm[Len(perm)], perm[1])
    THEN [acc EXCEPT !.largest_cycle_size = max(@, Len(perm))]
    ELSE acc

RECURSIVE perm_loop(_, _, _, _, _)

\* "for perm in subset_perms" (line 214) over perms[lo..hi], in list order.
perm_loop(E, perms, lo, hi, acc) ==
    IF lo > hi THEN acc
    ELSE IF lo = hi THEN SubsetStep(E, perms[lo], acc)
    ELSE LET mid == (lo + hi) \div 2
             first == perm_loop(E, perms, lo, mid, acc)
         IN  IF first.largest_cycle_size >= 0
             THEN perm_loop(E, perms, mid + 1, hi, first)
             ELSE first

\* Lines 213-217: the body of the loop over all_subsets.
SubsetBody(E, subset, acc) ==
    LET subset_perms == generate_permutations(subset)
    IN  perm_loop(E, subset_perms, 1, Len(subset_perms), acc)

RECURSIVE subset_loop(_, _, _, _)

\* "for subset in all_subsets" (line 212), from the k-th subset on; the
\* body is evaluated before the next subset is entered.
subset_loop(E, subsets, k, acc) ==
    IF k > Len(subsets) THEN acc
    ELSE LET done == SubsetBody(E, subsets[k], acc)
         IN  IF done.largest_cycle_size >= 0
             THEN subset_loop(E, subsets, k + 1, done)
             ELSE done

\* Lines 210-217 with the test of line 210 inverted.
SubsetPhaseInverted(vs, E, acc) ==
    IF acc.largest_cycle_size >= Len(vs)
    THEN subset_loop(E, generate_subsets(vs), 1, acc)
    ELSE acc

\* Lines 210-217: the subset phase, entered only without a full cycle.
SubsetPhase(vs, E, acc) ==
    IF acc.largest_cycle_size < Len(vs)
    THEN subset_loop(E, generate_subsets(vs), 1, acc)
    ELSE acc

\* Lines 219-229: the shaping of the returned list.
BfResult(acc) ==
    LET path_exists == Len(acc.hamiltonian_path) > 0
        cycle_exists == Len(acc.hamiltonian_cycle) > 0
    IN  [path_found |-> path_exists,
         path |-> IF ~path_exists THEN None ELSE List(acc.hamiltonian_path),
         cycle_found |-> cycle_exists,
         cycle |-> IF ~cycle_exists THEN None ELSE List(acc.hamiltonian_cycle),
         largest_cycle_size |-> acc.largest_cycle_size]

\* hamilton_bruteforce(vertices, edges); vs is list(vertices).
hamilton_bruteforce(vs, es) ==
    LET E == edge_set(es)
        all_perms == generate_permutations(vs)
    IN  BfResult(SubsetPhase(vs, E,
            full_loop(E, Len(vs), all_perms, 1, Len(all_perms), BfInit)))

\* ------------------------------------------------------------- inputs
\* list(vertices) of the set {1, ..., n}: CPython iterates it ascending.
Ascending(n) == [k \in 1..n |-> k]

\* list(vertices) of the set {1, 2, 8}: CPython iterates it as 8, 1, 2.
HashOrdered == <<8, 1, 2>>

\* Every list of len entries (u, v) over the vertices: both orientations,
\* repeated entries and entries with u = v included.
EdgeLists(vs, len) == [1..len -> {<<vs[i], vs[j]>> : i, j \in 1..Len(vs)}]

RECURSIVE PairsFrom(_, _, _)
\* The pairs (u, v), u < v <= n, in ascending order from (u, v) on.
PairsFrom(n, u, v) ==
    IF u >= n THEN <<>>
    ELSE IF v > n THEN PairsFrom(n, u + 1, u + 2)
    ELSE <<<<u, v>>>> \o PairsFrom(n, u, v + 1)

RECURSIVE Chosen(_, _, _)
\* The entries of pairs, from index k on, that mask keeps, in order.
Chosen(pairs, mask, k) ==
    IF k > Len(pairs) THEN <<>>
    ELSE (IF mask[k] THEN <<pairs[k]>> ELSE <<>>) \o Chosen(pairs, mask, k + 1)

\* The edge lists of the simple graphs on 1..n, each edge listed once,
\* smaller endpoint first, in ascending order (the "e u v" lines of a file).
GraphEdgeLists(n) ==
    LET pairs == PairsFrom(n, 1, 2)
    IN  {Chosen(pairs, mask, 1) : mask \in [1..Len(pairs) -> BOOLEAN]}

\* The three instances of the module docstring (lines 17-43).
Instance1 == [vertices |-> Ascending(4),
              edges |-> <<<<1, 2>>, <<1, 4>>, <<2, 3>>, <<2, 4>>, <<3, 4>>>>]
Instance2 == [vertices |-> Ascending(6),
              edges |-> <<<<1, 5>>, <<1, 6>>, <<2, 3>>, <<2, 4>>, <<2, 6>>,
                          <<3, 4>>, <<3, 5>>, <<3, 6>>, <<4, 5>>, <<4, 6>>>>]
Instance3 == [vertices |-> Ascending(5),
              edges |-> <<<<1, 5>>, <<2, 3>>, <<3, 5>>, <<4, 5>>>>]
DocumentedInstances == {Instance1, Instance2, Instance3}

\* -------------------------------------------------------------- state
VARIABLES
    vertices,    \* list(vertices): the vertex set in iteration order
    edges,       \* the edge list of the instance
    bt_done,     \* hamilton_backtracking has returned
    bt,          \* its returned list
    bf_done,     \* hamilton_bruteforce has returned
    bf,          \* its returned list
    pc,          \* position of the stepwise backtracking search
    start_idx,   \* index of "start" in "for start in vertices"
    visited,     \* the visited list shared by the calls of recurse
    stack,       \* the active calls of recurse: cur_node and edge index
    acc,         \* Hamiltonian_Path, Hamiltonian_Cycle, Largest_Cycle_Size
    explored,    \* history: the visited lists recurse was called on
    completed    \* history: the complete visited lists, in search order

inputs == <<vertices, edges>>
calls == <<bt_done, bt, bf_done, bf>>
search == <<pc, start_idx, visited, stack, acc, explored, completed>>
vars == <<vertices, edges, bt_done, bt, bf_done, bf,
          pc, start_idx, visited, stack, acc, explored, completed>>

NoResult == [path_found |-> FALSE, path |-> None, cycle_found |-> FALSE,
             cycle |-> None, largest_cycle_size |-> 0]

InitInputs ==
    \/ /\ \E n \in 0..MaxVertices : vertices = Ascending(n)
       /\ \E len \in 0..MaxEdges : edges \in EdgeLists(vertices, len)
    \/ /\ vertices = HashOrdered
       /\ \E len \in 0..MaxEdges : edges \in EdgeLists(vertices, len)
    \/ \E n \in 0..MaxGraphVertices :
          /\ vertices = Ascending(n)
          /\ edges \in GraphEdgeLists(n)
    \/ \E g \in DocumentedInstances : vertices = g.vertices /\ edges = g.edges

Init ==
    /\ InitInputs
    /\ bt_done = FALSE /\ bt = NoResult
    /\ bf_done = FALSE /\ bf = NoResult
    /\ pc = "start_loop" /\ start_idx = 1
    /\ visited = <<>> /\ stack = <<>>
    /\ acc = BtInit
    /\ explored = {} /\ completed = <<>>

\* ------------------------------------- the two solvers as single calls
CallBacktracking ==
    /\ ~bt_done
    /\ bt_done' = TRUE
    /\ bt' = hamilton_backtracking(vertices, edges)
    /\ UNCHANGED <<inputs, bf_done, bf, search>>

CallBruteforce ==
    /\ bt_done /\ ~bf_done
    /\ bf_done' = TRUE
    /\ bf' = hamilton_bruteforce(vertices, edges)
    /\ UNCHANGED <<inputs, bt_done, bt, search>>

Next == CallBacktracking \/ CallBruteforce

Spec == Init /\ [][Next]_vars

\* ------------------------------ hamilton_backtracking, one step at a time
Top == stack[Len(stack)]
Pop(s) == SubSeq(s, 1, Len(s) - 1)

\* Line 126-127: the next start vertex; recurse([start], start) is called.
NextStart ==
    /\ pc = "start_loop"
    /\ start_idx <= Len(vertices)
    /\ visited' = <<vertices[start_idx]>>
    /\ stack' = <<[cur_node |-> vertices[start_idx], i |-> 1]>>
    /\ pc' = "recurse"
    /\ UNCHANGED <<inputs, calls, start_idx, acc, explored, completed>>

\* Line 126: the vertices are exhausted.
StartsExhausted ==
    /\ pc = "start_loop"
    /\ start_idx > Len(vertices)
    /\ pc' = "return"
    /\ UNCHANGED <<inputs, calls, start_idx, visited, stack, acc, explored,
                   completed>>

\* Lines 88-98: the body of recurse up to its edge loop.
Enter ==
    /\ pc = "recurse"
    /\ explored' = explored \cup {visited}
    /\ IF Len(vertices) = Len(visited)
       THEN /\ acc' = BaseCase(edges, visited, Top.cur_node,
                               ClosureCheck(edges, visited, Top.cur_node, acc))
            /\ completed' = Append(completed, visited)
            /\ stack' = Pop(stack)
            /\ pc' = "returned"
       ELSE /\ acc' = ClosureCheck(edges, visited, Top.cur_node, acc)
            /\ completed' = completed
            /\ stack' = stack
            /\ pc' = "edge_loop"
    /\ UNCHANGED <<inputs, calls, start_idx, visited>>

\* The indices, from the current one on, of the edges that give a neighbour.
Extending ==
    {k \in Top.i..Len(edges) :
        Neighbor(edges[k], Top.cur_node, visited) # NoNeighbor}

Least(S) == CHOOSE k \in S : \A j \in S : k <= j

\* Lines 101-110: the edge loop reaches an edge with an unvisited
\* neighbour, appends it and calls recurse.
Extend ==
    /\ pc = "edge_loop"
    /\ Extending # {}
    /\ LET k == Least(Extending)
           neighbor == Neighbor(edges[k], Top.cur_node, visited)
       IN  /\ visited' = Append(visited, neighbor)
           /\ stack' = Append([stack EXCEPT ![Len(stack)].i = k],
                              [cur_node |-> neighbor, i |-> 1])
    /\ pc' = "recurse"
    /\ UNCHANGED <<inputs, calls, start_idx, acc, explored, completed>>

\* Line 101: the edge loop ends without another neighbour; recurse returns.
Exhaust ==
    /\ pc = "edge_loop"
    /\ Extending = {}
    /\ stack' = Pop(stack)
    /\ pc' = "returned"
    /\ UNCHANGED <<inputs, calls, start_idx, visited, acc, explored, completed>>

\* Lines 111-113 without the test of line 112: the edge loop always goes on.
UnwindWithoutReturn ==
    /\ pc = "returned"
    /\ stack # <<>>
    /\ visited' = Pop(visited)
    /\ stack' = [stack EXCEPT ![Len(stack)].i = @ + 1]
    /\ pc' = "edge_loop"
    /\ UNCHANGED <<inputs, calls, start_idx, acc, explored, completed>>

\* Lines 111-113: back in the edge loop of the caller: pop, then return if
\* a cycle is recorded, else go on with the next edge.
Unwind ==
    /\ pc = "returned"
    /\ stack # <<>>
    /\ visited' = Pop(visited)
    /\ IF acc.Hamiltonian_Cycle # <<>>
       THEN stack' = Pop(stack) /\ pc' = "returned"
       ELSE stack' = [stack EXCEPT ![Len(stack)].i = @ + 1] /\ pc' = "edge_loop"
    /\ UNCHANGED <<inputs, calls, start_idx, acc, explored, completed>>

\* Lines 128-129: back in the loop over the start vertices: break if a
\* cycle is recorded, else go on with the next start vertex.
AfterStart ==
    /\ pc = "returned"
    /\ stack = <<>>
    /\ IF acc.Hamiltonian_Cycle # <<>>
       THEN pc' = "return" /\ start_idx' = start_idx
       ELSE pc' = "start_loop" /\ start_idx' = start_idx + 1
    /\ UNCHANGED <<inputs, calls, visited, stack, acc, explored, completed>>

\* Line 131: the result is returned.
Return ==
    /\ pc = "return"
    /\ bt' = BtResult(acc)
    /\ bt_done' = TRUE
    /\ pc' = "done"
    /\ UNCHANGED <<inputs, bf_done, bf, start_idx, visited, stack, acc,
                   explored, completed>>

NextBT ==
    \/ NextStart
    \/ StartsExhausted
    \/ Enter
    \/ Extend
    \/ Exhaust
    \/ Unwind
    \/ AfterStart
    \/ Return

SpecBT == Init /\ [][NextBT]_vars

\* ---------------------------------------- graph notions of the claims
NumVertices == Len(vertices)
VertexSet == {vertices[k] : k \in 1..Len(vertices)}

\* Some entry of the input edge list joins u and v, in either orientation.
Joined(u, v) ==
    \E k \in 1..Len(edges) : edges[k] = <<u, v>> \/ edges[k] = <<v, u>>

Distinct(s) == \A i, j \in 1..Len(s) : s[i] = s[j] => i = j
Consecutive(s) == \A i \in 1..(Len(s) - 1) : Joined(s[i], s[i + 1])
Front(s) == SubSeq(s, 1, Len(s) - 1)

RECURSIVE SimplePaths(_)
\* The simple paths on k vertices: sequences of k distinct vertices whose
\* consecutive vertices are joined, built one vertex at a time.
SimplePaths(k) ==
    IF k <= 0 THEN {}
    ELSE IF k = 1 THEN {<<v>> : v \in VertexSet}
    ELSE UNION {{Append(p, v) : v \in {w \in VertexSet :
                                          /\ \A i \in 1..Len(p) : p[i] # w
                                          /\ Joined(p[Len(p)], w)}} :
                p \in SimplePaths(k - 1)}

AllSimplePaths == UNION {SimplePaths(k) : k \in 1..NumVertices}

\* A simple path on at least 3 vertices whose ends are joined: a cycle.
Closes(p) == Len(p) >= 3 /\ Joined(p[Len(p)], p[1])

HamiltonianPaths == SimplePaths(NumVertices)
HamiltonianCycles == {p \in HamiltonianPaths : Closes(p)}
CycleSizes == {k \in 3..NumVertices : \E p \in SimplePaths(k) : Closes(p)}
LongestCycle ==
    IF CycleSizes = {} THEN 0
    ELSE CHOOSE k \in CycleSizes : \A j \in CycleSizes : j <= k

SelfLoopFree == \A k \in 1..Len(edges) : edges[k][1] # edges[k][2]
NotSelfLoop(e) == e[1] # e[2]

\* The position of a vertex in the vertex list.
PositionOf(v) == CHOOSE k \in 1..Len(vertices) : vertices[k] = v

\* p comes before q in the lexicographic order of positions.
Before(p, q) ==
    \E i \in 1..Len(p) :
        /\ i <= Len(q)
        /\ \A j \in 1..(i - 1) : p[j] = q[j]
        /\ PositionOf(p[i]) < PositionOf(q[i])

FirstOf(S) == CHOOSE p \in S : \A q \in S : q = p \/ Before(p, q)

RECURSIVE Factorial(_)
Factorial(n) == IF n <= 1 THEN 1 ELSE n * Factorial(n - 1)

\* The results returned so far.
Returned == (IF bt_done THEN {bt} ELSE {}) \cup (IF bf_done THEN {bf} ELSE {})

\* ------------------------------------------------------------ the claims
\* C1: both solvers return the same path_found, the same cycle_found and
\* the same largest_cycle_size on every graph of the model.
Agreement ==
    (bt_done /\ bf_done) =>
        /\ bt.path_found = bf.path_found
        /\ bt.cycle_found = bf.cycle_found
        /\ bt.largest_cycle_size = bf.largest_cycle_size

\* C2: on a non-empty vertex set and an edge list without self-loops,
\* hamilton_bruteforce reports a path exactly when a Hamiltonian path
\* exists, a cycle exactly when a Hamiltonian cycle exists, and the size of
\* the longest simple cycle (0 without one).
BruteforceIsOracle ==
    (bf_done /\ NumVertices >= 1 /\ SelfLoopFree) =>
        /\ bf.path_found <=> (HamiltonianPaths # {})
        /\ bf.cycle_found <=> (HamiltonianCycles # {})
        /\ bf.largest_cycle_size = LongestCycle

\* A graph with a Hamiltonian path, no Hamiltonian cycle and a triangle.
BruteforceIsOracleWitness ==
    /\ bf_done /\ SelfLoopFree /\ NumVertices = 4
    /\ bf.path_found /\ ~bf.cycle_found /\ bf.largest_cycle_size = 3

\* C3: in every returned result the path is None exactly when path_found
\* is false, and the cycle is None exactly when cycle_found is false.
ResultShape ==
    \A r \in Returned :
        /\ (r.path = None) <=> ~r.path_found
        /\ (r.cycle = None) <=> ~r.cycle_found

\* C4: on at most 2 vertices both solvers return cycle_found = false and
\* largest_cycle_size = 0.
TrivialGraphs ==
    NumVertices <= 2 =>
        \A r \in Returned : ~r.cycle_found /\ r.largest_cycle_size = 0

\* C5 as stated: 0 <= largest_cycle_size <= |vertices|, and
\* largest_cycle_size = |vertices| exactly when cycle_found, on every input.
BoundEveryInput ==
    \A r \in Returned :
        /\ 0 <= r.largest_cycle_size /\ r.largest_cycle_size <= NumVertices
        /\ (r.largest_cycle_size = NumVertices) <=> r.cycle_found

\* C5 as amended: 0 <= largest_cycle_size <= |vertices| on every input, and
\* on a non-empty vertex set largest_cycle_size = |vertices| exactly when
\* cycle_found.
BoundNonEmpty ==
    \A r \in Returned :
        /\ 0 <= r.largest_cycle_size /\ r.largest_cycle_size <= NumVertices
        /\ NumVertices >= 1 =>
              ((r.largest_cycle_size = NumVertices) <=> r.cycle_found)

\* Both solvers have returned: one graph with a Hamiltonian cycle, and the
\* size of the largest cycle is the vertex count.
BoundNonEmptyWitness ==
    /\ bt_done /\ bf_done /\ NumVertices >= 3
    /\ \A r \in Returned : r.cycle_found /\ r.largest_cycle_size = NumVertices

\* A returned path: distinct vertices covering the vertex set, consecutive
\* ones joined by an input edge.
ValidPath(s) ==
    /\ Distinct(s)
    /\ {s[k] : k \in 1..Len(s)} = VertexSet
    /\ Consecutive(s)

\* A returned cycle: the last element repeats the first, and the rest is a
\* valid path whose last and first vertices are joined by an input edge.
ValidCycle(c) ==
    /\ Len(c) >= 2
    /\ c[Len(c)] = c[1]
    /\ ValidPath(Front(c))
    /\ Joined(Front(c)[Len(c) - 1], c[1])

\* C6: every returned path and every returned cycle is valid in the input
\* graph.
WitnessValidity ==
    \A r \in Returned :
        /\ r.path_found => ValidPath(r.path.items)
        /\ r.cycle_found => ValidCycle(r.cycle.items)

\* Both solvers returned a path and a cycle of the graph, and not the same
\* cycle.
WitnessValidityWitness ==
    /\ bt_done /\ bf_done /\ NumVertices >= 3
    /\ bt.path_found /\ bf.path_found
    /\ bt.cycle_found /\ bf.cycle_found
    /\ bt.cycle.items # bf.cycle.items

\* The rows of the docstring's example output (lines 54-56).
DocumentedRows ==
    /\ (vertices = Instance1.vertices /\ edges = Instance1.edges) =>
          bf = [path_found |-> TRUE, path |-> List(<<1, 2, 3, 4>>),
                cycle_found |-> TRUE, cycle |-> List(<<1, 2, 3, 4, 1>>),
                largest_cycle_size |-> 4]
    /\ (vertices = Instance2.vertices /\ edges = Instance2.edges) =>
          bf = [path_found |-> TRUE, path |-> List(<<1, 5, 3, 2, 4, 6>>),
                cycle_found |-> TRUE, cycle |-> List(<<1, 5, 3, 2, 4, 6, 1>>),
                largest_cycle_size |-> 6]
    /\ (vertices = Instance3.vertices /\ edges = Instance3.edges) =>
          bf = [path_found |-> FALSE, path |-> None,
                cycle_found |-> FALSE, cycle |-> None,
                largest_cycle_size |-> 0]

\* C7: hamilton_bruteforce generates the full permutations in lexicographic
\* order of positions, returns as path the first one that is a path of the
\* graph, as cycle the first one that also closes, followed by its first
\* vertex, and so returns the documented rows (non-empty vertex sets).
BruteforceSelection ==
    (bf_done /\ NumVertices >= 1) =>
        /\ LET all_perms == generate_permutations(vertices)
           IN  /\ Len(all_perms) = Factorial(NumVertices)
               /\ \A k \in 1..(Len(all_perms) - 1) :
                      Before(all_perms[k], all_perms[k + 1])
        /\ bf.path = IF HamiltonianPaths = {} THEN None
                     ELSE List(FirstOf(HamiltonianPaths))
        /\ bf.cycle = IF HamiltonianCycles = {} THEN None
                      ELSE LET c == FirstOf(HamiltonianCycles)
                           IN  List(Append(c, c[1]))
        /\ DocumentedRows

\* Instance 2 of the docstring is solved: the graph has Hamiltonian paths
\* before and after the returned one, and a closing one.
BruteforceSelectionWitness ==
    /\ bf_done
    /\ vertices = Instance2.vertices /\ edges = Instance2.edges
    /\ bf.path = List(<<1, 5, 3, 2, 4, 6>>)
    /\ Cardinality(HamiltonianPaths) >= 2

\* C8 as stated: the returned path is the first complete path the search
\* reached.
FirstPathReturned ==
    (pc = "done" /\ completed # <<>>) => bt.path.items = completed[1]

\* C8 as amended: every complete path reached replaces the recorded one, so
\* the recorded path is at every step the last complete path reached, and
\* so is the returned one.
LastPathReturned ==
    /\ acc.Hamiltonian_Path =
          IF completed = <<>> THEN <<>> ELSE completed[Len(completed)]
    /\ pc = "done" => bt.path.items = acc.Hamiltonian_Path

\* The search reached two different complete paths and returned the later.
LastPathReturnedWitness ==
    /\ pc = "done"
    /\ Len(completed) >= 2
    /\ completed[1] # completed[Len(completed)]
    /\ bt.path.items = completed[Len(completed)]

\* C9: once a Hamiltonian cycle is recorded the search only unwinds: no
\* append, no call of recurse, no further start vertex, no change of the
\* recorded path, cycle or size.  Without a recorded cycle the search ends
\* only when every start vertex and every simple path has been explored,
\* whether or not a Hamiltonian path was recorded.
EarlyTermination ==
    /\ [][acc.Hamiltonian_Cycle # <<>> =>
            /\ acc' = acc
            /\ start_idx' = start_idx
            /\ Len(visited') <= Len(visited)
            /\ Len(stack') <= Len(stack)
            /\ explored' = explored
            /\ pc' \in {"returned", "return", "done"}]_vars
    /\ [](pc = "done" /\ acc.Hamiltonian_Cycle = <<>> =>
            /\ start_idx = NumVertices + 1
            /\ explored = AllSimplePaths)

\* A cycle is recorded while calls of recurse and start vertices are left.
EarlyTerminationWitness ==
    /\ pc = "returned"
    /\ acc.Hamiltonian_Cycle # <<>>
    /\ Len(stack) >= 2
    /\ start_idx < NumVertices

\* A Hamiltonian path was recorded, no cycle, and the search went on to
\* the end.
PathDoesNotStopWitness ==
    /\ pc = "done"
    /\ acc.Hamiltonian_Path # <<>> /\ acc.Hamiltonian_Cycle = <<>>
    /\ Len(completed) >= 2

\* C10: entries (u, u) of the edge list do not change what the solvers
\* return.
SelfLoopsIgnored ==
    /\ bt_done =>
          bt = hamilton_backtracking(vertices, SelectSeq(edges, NotSelfLoop))
    /\ bf_done =>
          bf = hamilton_bruteforce(vertices, SelectSeq(edges, NotSelfLoop))

\* The stepwise search returns what the single call returns.
StepwiseMatchesCall ==
    pc = "done" => bt = hamilton_backtracking(vertices, edges)
====
